---- MODULE Spec2Model ----
(***************************************************************************)
(* Model of the generation endpoint of the furniture placement backend     *)
(* (backend/app.py, generate_placement) together with the composition      *)
(* dispatch of backend/services/nano_banana.py.                            *)
(*                                                                         *)
(* generate_placement is an "async def" without any await in its body, so  *)
(* the event loop runs one request from its first to its last line before  *)
(* it starts the next: requests are modelled one at a time, each as a      *)
(* straight line of steps.                                                 *)
(*                                                                         *)
(* Percent values are Python floats in the source.  They are modelled as   *)
(* exact fractions <<num, den>> in lowest terms (den > 0).                 *)
(***************************************************************************)
EXTENDS Integers, Sequences, FiniteSets, TLC

\* ------------------------------------------------------------------ bounds
NumClients == 2
MaxPaths == 6
MaxListLen == 3
MaxRoom == 3
MaxThin == 4
MaxImages == 3
MaxContent == 3
MaxCatalogOps == 4

\* ------------------------------------------------------- program constants
TRIAL_LIMIT == 3
MAX_FURNITURE == 5
MAX_LONG_SIDE == 1200
IMGBB_RETRIES == 3
max_attempts == 240
KIE_RETRY_COUNT == 3
KIE_RETRY_DELAY == 15
COLLAGE_MAX_HEIGHT == 512
COLLAGE_PADDING == 40

\* --------------------------------------------------------------- fractions
RECURSIVE Gcd(_, _)
Gcd(a, b) == IF b = 0 THEN a ELSE Gcd(b, a % b)

Abs(a) == IF a < 0 THEN -a ELSE a

Frac(n, d) == LET g == Gcd(Abs(n), d) IN <<n \div g, d \div g>>

Whole(n) == <<n, 1>>

Max2(a, b) == IF a >= b THEN a ELSE b
Min2(a, b) == IF a <= b THEN a ELSE b

\* ------------------------------------------------------------ Python dicts
\* A dict is a function from its keys; {} is the function with no keys.
EmptyDict == <<>>
Get(d, k, default) == IF k \in DOMAIN d THEN d[k] ELSE default
Update(d, u) == u @@ d
SetDefault(d, k, v) == IF k \in DOMAIN d THEN d ELSE (k :> v) @@ d
Truthy(d) == DOMAIN d # {}

\* ------------------------------------------------------------- exceptions
\* status = 0 marks an exception that is not an HTTPException.
Exc(type, status, msg, used, limit) ==
    [type |-> type, status |-> status, msg |-> msg, used |-> used, limit |-> limit]

HTTPException(status, msg) == Exc("HTTPException", status, msg, -1, -1)

NoExc == Exc("none", 0, "none", -1, -1)

\* ------------------------------------------------------------------ inputs
Clients == 1..NumClients

\* The furniture_image_paths form field: text that is not JSON, JSON that is
\* not an array, or an array of paths.
BadJson == [kind |-> "bad_json", items |-> <<>>]
NotList == [kind |-> "not_list", items |-> <<>>]
PathLists == {[kind |-> "list", items |-> [i \in 1..k |-> i]] : k \in 0..MaxPaths}
PathInputs == {BadJson, NotList} \cup PathLists

NoBox == <<>>
ManualBoxes == {NoBox, <<1, 3, 2, 2>>, <<-5, 2, 50, 1>>}
Rotations == {0, 90, 45, -90, 180}
WallInputs == {"auto", "left"}
RoomSize == <<10, 8>>

Requests ==
    [client : Clients,
     placement_mode : {"place", "replace"},
     paths : PathInputs,
     mode : {"auto", "manual"},
     manual_box : ManualBoxes,
     furniture_rotation : Rotations,
     wall_alignment : WallInputs,
     room_readable : BOOLEAN]

NoReq == [client |-> 0]

\* ------------------------------------------------- placement rectangles
Rect(x, y, w, h) ==
    [x_percent |-> x, y_percent |-> y, width_percent |-> w, height_percent |-> h]

RectKeys == {"x_percent", "y_percent", "width_percent", "height_percent"}

fallback_item_placement_FullSize(i, n) ==
    Rect(Frac(25 * Max2(1, n - 1) + i * 50, Max2(1, n - 1)),
         Whole(55 + (i % 2) * 8),
         Whole(30),
         Whole(25))
      @@ [rotation |-> 0, wall_alignment |-> "auto"]

fallback_item_placement_EvenlySpaced(i, n) ==
    Rect(Frac((i + 1) * 100, n + 1),
         Whole(55 + (i % 2) * 8),
         Frac(30, n),
         Frac(25, n))
      @@ [rotation |-> 0, wall_alignment |-> "auto"]

\* app.py 367-386: the layout substituted when the analysis call raises.
fallback_item_placement(i, n) ==
    Rect(Frac(25 * Max2(1, n - 1) + i * 50, Max2(1, n - 1)),
         Whole(55 + (i % 2) * 8),
         Frac(30, n),
         Frac(25, n))
      @@ [rotation |-> 0, wall_alignment |-> "auto"]

fallback_analysis(n) ==
    [room_analysis |-> [style |-> "modern", lighting |-> "natural"],
     placement |-> Rect(Whole(50), Whole(60), Whole(35), Whole(25))
                     @@ [rotation |-> 0, wall_alignment |-> "auto"],
     furniture_items |->
        [k \in 1..n |-> [index |-> k - 1,
                         type |-> "furniture",
                         placement |-> fallback_item_placement(k - 1, n)]]]

\* gpt4_analyzer.py 543-571: what _parse_analysis returns for text that is
\* not JSON.
default_analysis ==
    [room_analysis |-> [size_estimate |-> "unknown", lighting |-> "natural",
                        style |-> "modern", perspective |-> "eye-level"],
     furniture_analysis |-> [type |-> "furniture", estimated_size |-> "medium",
                             style |-> "modern", color |-> "neutral"],
     placement |-> Rect(Whole(50), Whole(50), Whole(30), Whole(30))
                     @@ [scale |-> Whole(1), rotation |-> 0,
                         reasoning |-> "Default placement"],
     inpainting_prompt |-> "Place furniture in the room"]

\* Answers of the vision backend that parse as JSON.  The analyzer asks for
\* per-item placements carrying their own rotation (gpt4_analyzer.py
\* 462-491); the backend is free to answer in the single-item format or to
\* leave a placement empty.
AiItemPlacement(i) ==
    Rect(Whole(30 + 10 * i), Whole(60), Whole(20), Whole(20))
      @@ [scale |-> Whole(1), rotation |-> 90, reasoning |-> "ai"]

AiItems(n) ==
    [room_analysis |-> [style |-> "loft", lighting |-> "warm"],
     furniture_items |->
        [k \in 1..n |-> [index |-> k - 1, type |-> "sofa", color |-> "grey",
                         placement |-> AiItemPlacement(k - 1)]],
     overall_composition |-> "ai"]

AiItemsEmptyPlacement(n) ==
    [room_analysis |-> [style |-> "loft", lighting |-> "warm"],
     furniture_items |->
        [k \in 1..n |-> [index |-> k - 1, type |-> "sofa", color |-> "grey",
                         placement |-> EmptyDict]]]

AiPlacementOnly ==
    [room_analysis |-> [style |-> "loft", lighting |-> "warm"],
     furniture_analysis |-> [type |-> "sofa", color |-> "grey"],
     placement |-> Rect(Whole(40), Whole(70), Whole(35), Whole(25))
                     @@ [rotation |-> 90, wall_alignment |-> "right",
                         reasoning |-> "ai"]]

ParsedAnswers(n) == {AiItems(n), AiItemsEmptyPlacement(n), AiPlacementOnly}

\* Ways analyze_multi_furniture_placement raises (gpt4_analyzer.py 48-57,
\* 114-131, 138-149); every one of them reaches the caller as an exception.
AnalysisFailures ==
    {"network_error", "rejected_input", "empty_content", "maintenance_exhausted"}

\* ----------------------------------------------------------- manual box
\* app.py 348-355
resolve_manual_box(mode, box) ==
    IF mode = "manual" /\ box # NoBox THEN box ELSE NoBox

clamp_box_NoFloor(box, rw, rh) ==
    LET bx == Max2(0, Min2(box[1], rw - 1))
        by == Max2(0, Min2(box[2], rh - 1))
        bw == Min2(box[3], rw - bx)
        bh == Min2(box[4], rh - by)
    IN <<bx, by, bw, bh>>

\* app.py 393-398
clamp_box(box, rw, rh) ==
    LET bx == Max2(0, Min2(box[1], rw - 1))
        by == Max2(0, Min2(box[2], rh - 1))
        bw == Max2(1, Min2(box[3], rw - bx))
        bh == Max2(1, Min2(box[4], rh - by))
    IN <<bx, by, bw, bh>>

\* app.py 400-407: x_percent = ((bx + bw / 2) / rw) * 100, and so on.
manual_placement(cb, rw, rh) ==
    Rect(Frac((2 * cb[1] + cb[3]) * 100, 2 * rw),
         Frac((2 * cb[2] + cb[4]) * 100, 2 * rh),
         Frac(cb[3] * 100, rw),
         Frac(cb[4] * 100, rh))
      @@ [rotation |-> 0, reasoning |-> "User selected target rectangle (bbox)"]

\* app.py 399-407
apply_manual_box(an, box, rw, rh) ==
    LET a1 == SetDefault(an, "placement", EmptyDict)
    IN [a1 EXCEPT !["placement"] =
            Update(@, manual_placement(clamp_box(box, rw, rh), rw, rh))]

infer_wall_alignment_BackOnTies(cb, rw) ==
    LET left_margin == cb[1]
        right_margin == rw - (cb[1] + cb[3])
        top_margin == cb[2]
    IN IF right_margin < left_margin /\ right_margin < top_margin THEN "right"
       ELSE IF left_margin < right_margin /\ left_margin < top_margin THEN "left"
       ELSE "back"

infer_wall_alignment_SidesOnly(cb, rw) ==
    LET left_margin == cb[1]
        right_margin == rw - (cb[1] + cb[3])
    IN IF right_margin <= left_margin THEN "right" ELSE "left"

\* app.py 410-420
infer_wall_alignment(cb, rw) ==
    LET left_margin == cb[1]
        right_margin == rw - (cb[1] + cb[3])
        top_margin == cb[2]
        m == Min2(Min2(left_margin, right_margin), top_margin)
    IN IF m = right_margin THEN "right"
       ELSE IF m = left_margin THEN "left"
       ELSE "back"

\* app.py 425-427
finalize_placement(an, rotation, wall) ==
    LET a1 == SetDefault(an, "placement", EmptyDict)
    IN [a1 EXCEPT !["placement"] =
            Update(@, [rotation |-> rotation, wall_alignment |-> wall])]

\* ---------------------------------------------------------- composition
NoRect == <<>>
RectOf(pl) == <<pl["x_percent"], pl["y_percent"], pl["width_percent"], pl["height_percent"]>>

\* nano_banana.py 500-568: the parts of the single-item prompt that depend
\* on the placement.  The rectangle is named only when all four values are
\* present; the numbers are recorded as passed to the format.
create_prompt(params) ==
    LET placement == Get(params, "placement", EmptyDict)
        rotation == Get(placement, "rotation", 0)
        wall == Get(placement, "wall_alignment", "auto")
    IN [rects |-> IF RectKeys \subseteq DOMAIN placement
                  THEN <<RectOf(placement)>> ELSE <<>>,
        rotation_hint |-> (rotation = 90),
        wall_hint |-> IF wall \in {"right", "left", "back"} THEN wall ELSE "none"]

\* nano_banana.py 262-392 (place_furniture): the furniture image is turned by
\* 90 degrees when the placement's rotation says so.
place_furniture(furniture_image_path, params) ==
    LET placement == Get(params, "placement", EmptyDict)
        rotation == Get(placement, "rotation", 0)
    IN [strategy |-> "single",
        furniture |-> <<furniture_image_path>>,
        collages |-> 0,
        rotated |-> (rotation = 90),
        prompt |-> create_prompt(params)]

ItemIndexes_Positional(items, idx) ==
    {k \in 1..Len(items) : k = idx + 1}

\* nano_banana.py 472: next((x for x in furniture_items if x.get("index") == idx), None)
ItemIndexes(items, idx) ==
    {k \in 1..Len(items) : "index" \in DOMAIN items[k] /\ items[k]["index"] = idx}

FirstIndex(S) == CHOOSE k \in S : \A j \in S : k <= j

\* nano_banana.py 471-487: the rectangle of placement clause idx.
multi_clause(items, idx, num_items) ==
    LET found == ItemIndexes(items, idx)
        item == IF found = {} THEN EmptyDict ELSE items[FirstIndex(found)]
        pl == Get(item, "placement", EmptyDict)
    IN IF Truthy(pl)
       THEN <<Get(pl, "x_percent", Whole(50)), Get(pl, "y_percent", Whole(60)),
              Get(pl, "width_percent", Whole(30)), Get(pl, "height_percent", Whole(25))>>
       ELSE <<Frac(25 * Max2(1, num_items - 1) + idx * 50, Max2(1, num_items - 1)),
              Whole(55 + (idx % 2) * 10),
              Frac(30, num_items),
              Frac(25, num_items)>>

\* nano_banana.py 484-487: the clause appended for index idx.
multi_part(items, idx, num_items) ==
    LET found == ItemIndexes(items, idx)
        item == IF found = {} THEN EmptyDict ELSE items[FirstIndex(found)]
    IN [item |-> idx + 1,
        type |-> Get(item, "type", "furniture item"),
        color |-> Get(item, "color", "neutral"),
        rect |-> multi_clause(items, idx, num_items)]

\* nano_banana.py 470-487: for idx in range(num_items): parts.append(...)
RECURSIVE multi_parts(_, _, _)
multi_parts(items, idx, num_items) ==
    IF idx >= num_items
    THEN <<>>
    ELSE <<multi_part(items, idx, num_items)>>
           \o multi_parts(items, idx + 1, num_items)

\* nano_banana.py 459-498: the clauses in the order they were appended; the
\* prompt carries no rotation and no wall instruction.
create_multi_placement_prompt(params, num_items) ==
    LET items == Get(params, "furniture_items", <<>>)
        parts == multi_parts(items, 0, num_items)
    IN [rects |-> [k \in 1..Len(parts) |-> parts[k].rect],
        rotation_hint |-> FALSE,
        wall_hint |-> "none"]

\* nano_banana.py 78-89 and 93-167: the collage of all furniture images is
\* built once and sent with the room image (_place_furniture_single_call).
place_furniture_single_call(furniture_image_paths, params) ==
    [strategy |-> "collage",
     furniture |-> furniture_image_paths,
     collages |-> 1,
     rotated |-> FALSE,
     prompt |-> create_multi_placement_prompt(params, Len(furniture_image_paths))]

\* nano_banana.py 59-67: with one item, the first furniture_items entry
\* replaces the placement when it carries a non-empty one.
one_params(params) ==
    LET items == Get(params, "furniture_items", <<>>)
        base == [placement |-> Get(params, "placement", EmptyDict)]
    IN IF Len(items) > 0
       THEN LET first == items[1]
                pl == Get(first, "placement", EmptyDict)
            IN [placement |-> IF Truthy(pl) THEN pl ELSE base.placement]
       ELSE base

place_multi_furniture_AlwaysCollage(furniture_image_paths, params) ==
    place_furniture_single_call(furniture_image_paths, params)

\* nano_banana.py 38-91
place_multi_furniture(furniture_image_paths, params) ==
    LET n == Len(furniture_image_paths)
    IN IF n = 1
       THEN place_furniture(furniture_image_paths[1], one_params(params))
       ELSE place_furniture_single_call(furniture_image_paths, params)

place_furniture_replace_AsPlace(furniture_image_path) ==
    place_furniture(furniture_image_path, EmptyDict)

\* nano_banana.py 169-225: room image plus the one new furniture image; the
\* prompt of _create_replace_prompt names no rectangle, rotation or wall.
place_furniture_replace(furniture_image_path) ==
    [strategy |-> "replace",
     furniture |-> <<furniture_image_path>>,
     collages |-> 0,
     rotated |-> FALSE,
     prompt |-> [rects |-> <<>>, rotation_hint |-> FALSE, wall_hint |-> "none"]]

NoComposition ==
    [strategy |-> "none",
     furniture |-> <<>>,
     collages |-> 0,
     rotated |-> FALSE,
     prompt |-> [rects |-> <<>>, rotation_hint |-> FALSE, wall_hint |-> "none"]]

\* ------------------------------------------------------------ quota store
\* The per-client usage record (TrialUsageRecord).  app.py 296 reads it with
\* db.get_generate_count, which backend/database.py does not define, and no
\* statement of generate_placement writes it: the store is modelled after
\* the specification, read at the quota check and advanced once for every
\* generation that returned a result.
get_generate_count(store, client_ip) == store[client_ip]

record_generation_AllClients(store, client_ip) ==
    [c \in DOMAIN store |-> store[c] + 1]

record_generation(store, client_ip) ==
    [store EXCEPT ![client_ip] = @ + 1]

QuotaExceeded_OffByOne(used) == used > TRIAL_LIMIT

\* app.py 297
QuotaExceeded(used) == used >= TRIAL_LIMIT

\* app.py 298-301
quota_error(used) ==
    Exc("HTTPException", 403, "trial_period_used_up", used, TRIAL_LIMIT)

\* -------------------------------------------------------- request handler
\* app.py 305, 311, 343, 423: the validation conditions.
is_nonempty_list(paths) == paths.kind = "list" /\ Len(paths.items) # 0
replace_arity_ok_AtLeastOne(n) == n >= 1
replace_arity_ok(n) == n = 1
too_many_items_OffByOne(n) == n > MAX_FURNITURE + 1
too_many_items(n) == n > MAX_FURNITURE
rotation_ok(rotation) == rotation \in {0, 90}

\* app.py 310
is_replace_mode(placement_mode) == placement_mode = "replace"

\* app.py 461-463: every exception leaving the try block, an HTTPException
\* raised inside it included, is answered with status 500.
generate_except(e) ==
    [status |-> 500, success |-> FALSE, preserves_original |-> FALSE,
     furniture_count |-> -1, cause |-> e]

\* app.py 332-341 and 450-459
success_response(preserves, count) ==
    [status |-> 200, success |-> TRUE, preserves_original |-> preserves,
     furniture_count |-> count, cause |-> NoExc]

NoResponse ==
    [status |-> 0, success |-> FALSE, preserves_original |-> FALSE,
     furniture_count |-> -1, cause |-> NoExc]

\* nano_banana.py 611-613
preserves_original == FALSE

analysis_except_Reraise(kind, n) == [raised |-> TRUE, analysis |-> EmptyDict]

\* app.py 365-386: the except block around the analysis call.
analysis_except(kind, n) == [raised |-> FALSE, analysis |-> fallback_analysis(n)]

parse_except_Fallback(n) ==
    [raised |-> FALSE, kind |-> "default", analysis |-> fallback_analysis(n)]

parse_except_Reraise(n) ==
    [raised |-> TRUE, kind |-> "none", analysis |-> EmptyDict]

\* gpt4_analyzer.py 543-571: except json.JSONDecodeError returns the
\* hardcoded analysis.
parse_except(n) ==
    [raised |-> FALSE, kind |-> "default", analysis |-> default_analysis]

next_step_BoxFirst(step) ==
    CASE step = "idle" -> "quota"
      [] step = "quota" -> "validate"
      [] step = "validate" -> "manual_box"
      [] step = "manual_box" -> "analysis"
      [] step = "analysis" -> "finalize"
      [] step = "finalize" -> "compose"
      [] step = "compose" -> "resize"
      [] step = "resize" -> "done"
      [] step = "replace_compose" -> "replace_resize"
      [] step = "replace_resize" -> "done"
      [] OTHER -> "done"

next_step_QuotaLate(step) ==
    CASE step = "idle" -> "validate"
      [] step = "quota" -> "resize"
      [] step = "validate" -> "analysis"
      [] step = "analysis" -> "manual_box"
      [] step = "manual_box" -> "finalize"
      [] step = "finalize" -> "compose"
      [] step = "compose" -> "quota"
      [] step = "resize" -> "done"
      [] step = "replace_compose" -> "replace_resize"
      [] step = "replace_resize" -> "done"
      [] OTHER -> "done"

\* The order of the statements of generate_placement in place mode
\* (app.py 295-459): the step that follows each step when it does not raise.
next_step(step) ==
    CASE step = "idle" -> "quota"
      [] step = "quota" -> "validate"
      [] step = "validate" -> "analysis"
      [] step = "analysis" -> "manual_box"
      [] step = "manual_box" -> "finalize"
      [] step = "finalize" -> "compose"
      [] step = "compose" -> "resize"
      [] step = "resize" -> "done"
      [] step = "replace_compose" -> "replace_resize"
      [] step = "replace_resize" -> "done"
      [] OTHER -> "done"

VARIABLES usage, successes, pc, req, used, manual_box, analysis,
          analysis_outcome, wall_alignment, composed, response, steps,
          call, svc, vis

\* The request handler's state.
handler_vars == <<usage, successes, pc, req, used, manual_box, analysis,
                  analysis_outcome, wall_alignment, composed, response, steps>>

\* call: one application of a helper function (its arguments and result);
\* svc: one run of the composition service (nano_banana.py);
\* vis: one run of the vision analyzer's request loop (gpt4_analyzer.py).
service_vars == <<call, svc, vis>>

vars == <<handler_vars, service_vars>>

NoCall == [fn |-> "none"]

SvcIdle == [pc |-> "idle"]

VisIdle == [pc |-> "idle"]

ServicesIdle ==
    /\ call = NoCall
    /\ svc = SvcIdle
    /\ vis = VisIdle

HandlerInit ==
    /\ usage = [c \in Clients |-> 0]
    /\ successes = [c \in Clients |-> 0]
    /\ pc = "idle"
    /\ req = NoReq
    /\ used = -1
    /\ manual_box = NoBox
    /\ analysis = EmptyDict
    /\ analysis_outcome = "none"
    /\ wall_alignment = "auto"
    /\ composed = NoComposition
    /\ response = NoResponse
    /\ steps = <<>>

Init ==
    /\ HandlerInit
    /\ ServicesIdle

\* A request arrives (app.py 266-288): the form fields.
Receive ==
    /\ pc = "idle"
    /\ \E r \in Requests :
         /\ req' = r
         /\ wall_alignment' = r.wall_alignment
    /\ pc' = next_step("idle")
    /\ used' = -1
    /\ manual_box' = NoBox
    /\ analysis' = EmptyDict
    /\ analysis_outcome' = "none"
    /\ composed' = NoComposition
    /\ response' = NoResponse
    /\ steps' = <<>>
    /\ UNCHANGED <<usage, successes>>
    /\ UNCHANGED service_vars

\* raise inside the try block of generate_placement
Raise(e) ==
    /\ response' = generate_except(e)
    /\ pc' = "done"

\* app.py 295-301
QuotaCheck ==
    /\ pc = "quota"
    /\ LET u == get_generate_count(usage, req.client)
       IN /\ used' = u
          /\ IF QuotaExceeded(u)
             THEN Raise(quota_error(u))
             ELSE /\ pc' = next_step("quota")
                  /\ UNCHANGED response
    /\ steps' = Append(steps, "quota")
    /\ UNCHANGED <<usage, successes, req, manual_box, analysis,
                   analysis_outcome, wall_alignment, composed>>
    /\ UNCHANGED service_vars

\* app.py 304-355
Validate ==
    /\ pc = "validate"
    /\ IF req.paths = BadJson
       THEN /\ Raise(Exc("JSONDecodeError", 0, "bad_json", -1, -1))
            /\ UNCHANGED manual_box
       ELSE IF ~is_nonempty_list(req.paths)
       THEN /\ Raise(HTTPException(400, "paths_must_be_nonempty_list"))
            /\ UNCHANGED manual_box
       ELSE IF is_replace_mode(req.placement_mode)
       THEN /\ IF ~replace_arity_ok(Len(req.paths.items))
               THEN Raise(HTTPException(400, "replace_needs_exactly_one"))
               ELSE /\ pc' = "replace_compose"
                    /\ UNCHANGED response
            /\ UNCHANGED manual_box
       ELSE IF too_many_items(Len(req.paths.items))
       THEN /\ Raise(HTTPException(400, "max_5_items"))
            /\ UNCHANGED manual_box
       ELSE /\ manual_box' = resolve_manual_box(req.mode, req.manual_box)
            /\ pc' = next_step("validate")
            /\ UNCHANGED response
    /\ steps' = Append(steps, "validate")
    /\ UNCHANGED <<usage, successes, req, used, analysis, analysis_outcome,
                   wall_alignment, composed>>
    /\ UNCHANGED service_vars

\* app.py 357-386: the vision call and the substitution when it raises.
\* An answer whose text is not JSON goes through the parser's except block
\* (gpt4_analyzer.py 543-571).
\* An unreadable room image makes the analyzer raise before any request is
\* sent (gpt4_analyzer.py 48-50).
Analyze ==
    /\ pc = "analysis"
    /\ LET n == Len(req.paths.items)
           Fail(kind) ==
               LET r == analysis_except(kind, n)
               IN /\ analysis_outcome' = kind
                  /\ IF r.raised
                     THEN /\ Raise(Exc("ValueError", 0, kind, -1, -1))
                          /\ UNCHANGED analysis
                     ELSE /\ analysis' = r.analysis
                          /\ pc' = next_step("analysis")
                          /\ UNCHANGED response
       IN IF ~req.room_readable
          THEN Fail("unreadable_image")
          ELSE \/ \E kind \in AnalysisFailures : Fail(kind)
               \/ \E a \in ParsedAnswers(n) :
                    /\ analysis' = a
                    /\ analysis_outcome' = "parsed"
                    /\ pc' = next_step("analysis")
                    /\ UNCHANGED response
               \/ LET r == parse_except(n)
                  IN IF r.raised
                     THEN Fail("not_json")
                     ELSE /\ analysis' = r.analysis
                          /\ analysis_outcome' = "not_json"
                          /\ pc' = next_step("analysis")
                          /\ UNCHANGED response
    /\ steps' = Append(steps, "analysis")
    /\ UNCHANGED <<usage, successes, req, used, manual_box, wall_alignment, composed>>
    /\ UNCHANGED service_vars

\* app.py 388-420
ApplyManualBox ==
    /\ pc = "manual_box"
    /\ IF manual_box = NoBox
       THEN /\ pc' = next_step("manual_box")
            /\ UNCHANGED <<analysis, wall_alignment, response, steps>>
       ELSE IF ~req.room_readable
       THEN /\ Raise(Exc("OSError", 0, "cannot_open_room_image", -1, -1))
            /\ steps' = Append(steps, "manual_box")
            /\ UNCHANGED <<analysis, wall_alignment>>
       ELSE /\ analysis' = apply_manual_box(analysis, manual_box, RoomSize[1], RoomSize[2])
            /\ wall_alignment' =
                 IF wall_alignment = "auto"
                 THEN infer_wall_alignment(
                        clamp_box(manual_box, RoomSize[1], RoomSize[2]), RoomSize[1])
                 ELSE wall_alignment
            /\ pc' = next_step("manual_box")
            /\ steps' = Append(steps, "manual_box")
            /\ UNCHANGED response
    /\ UNCHANGED <<usage, successes, req, used, manual_box, analysis_outcome, composed>>
    /\ UNCHANGED service_vars

\* app.py 422-427
FinalizeRotation ==
    /\ pc = "finalize"
    /\ IF ~rotation_ok(req.furniture_rotation)
       THEN /\ Raise(HTTPException(400, "rotation_must_be_0_or_90"))
            /\ UNCHANGED analysis
       ELSE /\ analysis' = finalize_placement(analysis, req.furniture_rotation, wall_alignment)
            /\ pc' = next_step("finalize")
            /\ UNCHANGED response
    /\ steps' = Append(steps, "finalize")
    /\ UNCHANGED <<usage, successes, req, used, manual_box, analysis_outcome,
                   wall_alignment, composed>>
    /\ UNCHANGED service_vars

\* app.py 429-436: the composition call.  It raises when an image cannot be
\* read or when the backend fails (upload, task submission, polling).
Compose ==
    /\ pc = "compose"
    /\ composed' = place_multi_furniture(req.paths.items, analysis)
    /\ \/ /\ req.room_readable
          /\ pc' = next_step("compose")
          /\ UNCHANGED response
       \/ Raise(Exc("ValueError", 0, "composition_failed", -1, -1))
    /\ steps' = Append(steps, "compose")
    /\ UNCHANGED <<usage, successes, req, used, manual_box, analysis,
                   analysis_outcome, wall_alignment>>
    /\ UNCHANGED service_vars

\* app.py 438-459: limit_image_size swallows its own errors
\* (image_utils.py 126-142), then the result is returned.
Resize ==
    /\ pc = "resize"
    /\ response' = success_response(preserves_original, Len(req.paths.items))
    /\ pc' = next_step("resize")
    /\ usage' = record_generation(usage, req.client)
    /\ UNCHANGED successes
    /\ steps' = Append(steps, "resize")
    /\ UNCHANGED <<req, used, manual_box, analysis, analysis_outcome,
                   wall_alignment, composed>>
    /\ UNCHANGED service_vars

\* app.py 313-320: place_furniture_replace(room, furniture_paths[0], ...)
ReplaceCompose ==
    /\ pc = "replace_compose"
    /\ composed' = place_furniture_replace(req.paths.items[1])
    /\ \/ /\ req.room_readable
          /\ pc' = next_step("replace_compose")
          /\ UNCHANGED response
       \/ Raise(Exc("ValueError", 0, "composition_failed", -1, -1))
    /\ steps' = Append(steps, "compose")
    /\ UNCHANGED <<usage, successes, req, used, manual_box, analysis,
                   analysis_outcome, wall_alignment>>
    /\ UNCHANGED service_vars

\* app.py 321-341
ReplaceResize ==
    /\ pc = "replace_resize"
    /\ response' = success_response(FALSE, 1)
    /\ pc' = next_step("replace_resize")
    /\ usage' = record_generation(usage, req.client)
    /\ UNCHANGED successes
    /\ steps' = Append(steps, "resize")
    /\ UNCHANGED <<req, used, manual_box, analysis, analysis_outcome,
                   wall_alignment, composed>>
    /\ UNCHANGED service_vars

\* The response leaves the handler; the next request can be taken.
\* successes is an observer's tally of the responses that reported success.
Respond ==
    /\ pc = "done"
    /\ pc' = "idle"
    /\ req' = NoReq
    /\ used' = -1
    /\ manual_box' = NoBox
    /\ analysis' = EmptyDict
    /\ analysis_outcome' = "none"
    /\ wall_alignment' = "auto"
    /\ composed' = NoComposition
    /\ response' = NoResponse
    /\ steps' = <<>>
    /\ successes' = IF response.success
                    THEN [successes EXCEPT ![req.client] = @ + 1]
                    ELSE successes
    /\ UNCHANGED usage
    /\ UNCHANGED service_vars

Next ==
    \/ Receive
    \/ QuotaCheck
    \/ Validate
    \/ Analyze
    \/ ApplyManualBox
    \/ FinalizeRotation
    \/ Compose
    \/ Resize
    \/ ReplaceCompose
    \/ ReplaceResize
    \/ Respond

Spec == Init /\ [][Next]_vars

\* ---------------------------------------------------------------------
\* The composition service (services/nano_banana.py) and the image
\* hosting client (services/image_uploader.py), one call at a time.
\* ---------------------------------------------------------------------

\* What a file on disk can be: a decodable image, bytes that are not an
\* image, or not readable at all.
FileStates == {"image", "corrupt", "missing"}

\* Answers of the hosting service to one upload request.
HostingAnswers == {"ok", "not_success", "timeout", "http_503", "http_error", "error"}
HostingRuns == [1..IMGBB_RETRIES -> HostingAnswers]

\* image_uploader.py 58-86: the attempts of one upload.
RECURSIVE upload_attempts(_, _)
upload_attempts(answers, attempt) ==
    IF attempt >= IMGBB_RETRIES
    THEN "none"
    ELSE LET a == answers[attempt + 1]
         IN CASE a = "ok" -> "hosted"
              [] a \in {"not_success", "timeout"} -> upload_attempts(answers, attempt + 1)
              [] a = "http_503" ->
                   IF attempt < IMGBB_RETRIES - 1
                   THEN upload_attempts(answers, attempt + 1)
                   ELSE "none"
              [] OTHER -> "none"

\* image_uploader.py 29-86: a public URL, or None.
upload_image(api_key, file, answers) ==
    IF ~api_key THEN "none"
    ELSE IF file = "missing" THEN "none"
    ELSE upload_attempts(answers, 0)

\* image_uploader.py 88-105: the inline data URL, or None.
image_to_data_url(file) ==
    IF file = "missing" THEN "none" ELSE "inline"

url_or_inline_NoFallback(url, file) == url

\* nano_banana.py 105-108, 114-117, 183-185, 189-191, 284-286, 307-309:
\* the URL handed on by an upload site when the hosting gave none.
url_or_inline(url, file) ==
    IF url # "none" THEN url ELSE image_to_data_url(file)

NoError == [type |-> "none", msg |-> "none", inner |-> "none"]
SvcError(type, msg) == [type |-> type, msg |-> msg, inner |-> "none"]

\* A call of the service as the handler makes it (app.py 314, 431).
SvcCall(fn, n, rotation, room_file, furniture_file, api_key) ==
    [pc |-> "start", fn |-> fn, n |-> n, rotation |-> rotation,
     room_file |-> room_file, furniture_file |-> furniture_file,
     api_key |-> api_key,
     room_url |-> "none", furniture_url |-> "none", upload_path |-> "furniture",
     files |-> {}, collages |-> 0, tasks |-> 0, image_input |-> <<>>,
     attempt |-> 0, polls |-> 0, last_answer |-> "none",
     hosting_failed |-> {}, remove_failed |-> FALSE,
     result |-> "none", error |-> NoError]

SvcCalls ==
    {SvcCall("place_multi_furniture", n, r, rf, ff, k) :
        n \in 1..MAX_FURNITURE, r \in {0, 90}, rf \in FileStates,
        ff \in FileStates, k \in BOOLEAN}
    \cup
    {SvcCall("place_furniture_replace", 1, 0, rf, ff, k) :
        rf \in FileStates, ff \in FileStates, k \in BOOLEAN}

\* The state of the file that upload_path names.
UploadFile(s) ==
    IF s.upload_path = "furniture" THEN s.furniture_file ELSE "image"

Leave_NoFinally(s) ==
    [s EXCEPT !.pc = IF s.error = NoError THEN "returned" ELSE "raised"]

\* Leaving the body of the running function: place_furniture and
\* _place_furniture_single_call pass through their finally block
\* (nano_banana.py 162-167, 386-392); place_furniture_replace has none.
Leave(s) ==
    IF s.fn = "place_furniture_replace"
    THEN [s EXCEPT !.pc = IF s.error = NoError THEN "returned" ELSE "raised"]
    ELSE [s EXCEPT !.pc = "finally"]

SvcRaise(s, type, msg) == Leave([s EXCEPT !.error = SvcError(type, msg)])

\* nano_banana.py 50-87: one item goes to place_furniture; otherwise the
\* collage of all furniture images is built (image_utils.py 73-118) and
\* handed to _place_furniture_single_call.  place_furniture_replace starts
\* with its room upload.
PlaceMultiFurniture ==
    /\ svc.pc = "start"
    /\ svc' =
         IF svc.fn = "place_furniture_replace"
         THEN [svc EXCEPT !.pc = "room_upload"]
         ELSE LET plan == place_multi_furniture([i \in 1..svc.n |-> i], EmptyDict)
              IN IF plan.strategy = "single"
                 THEN [svc EXCEPT !.pc = "room_upload", !.fn = "place_furniture"]
                 ELSE IF svc.furniture_file # "image"
                 THEN [svc EXCEPT !.pc = "raised",
                                  !.error = SvcError("OSError", "cannot_open_furniture")]
                 ELSE [svc EXCEPT !.pc = "room_upload",
                                  !.fn = "place_furniture_single_call",
                                  !.files = @ \cup {"collage"},
                                  !.collages = @ + plan.collages,
                                  !.upload_path = "collage"]
    /\ UNCHANGED <<handler_vars, call, vis>>

\* nano_banana.py 104-111, 183-187, 284-290
UploadRoom ==
    /\ svc.pc = "room_upload"
    /\ \E answers \in HostingRuns :
         LET hosted == upload_image(svc.api_key, svc.room_file, answers)
             url == url_or_inline(hosted, svc.room_file)
             s == [svc EXCEPT !.room_url = url,
                              !.hosting_failed =
                                 IF hosted = "none" THEN @ \cup {"room"} ELSE @]
         IN svc' = IF url = "none"
                   THEN SvcRaise(s, "ValueError", "room_upload_failed")
                   ELSE [s EXCEPT !.pc = IF s.fn = "place_furniture"
                                         THEN "rotate" ELSE "furniture_upload"]
    /\ UNCHANGED <<handler_vars, call, vis>>

\* nano_banana.py 293-303: the furniture image is turned and saved to a
\* temporary file when the placement's rotation is 90.
RotateFurniture ==
    /\ svc.pc = "rotate"
    /\ svc' =
         IF svc.rotation # 90
         THEN [svc EXCEPT !.pc = "furniture_upload"]
         ELSE IF svc.furniture_file # "image"
         THEN SvcRaise(svc, "OSError", "cannot_open_furniture")
         ELSE [svc EXCEPT !.pc = "furniture_upload",
                          !.files = @ \cup {"rotated"},
                          !.upload_path = "rotated"]
    /\ UNCHANGED <<handler_vars, call, vis>>

\* nano_banana.py 113-120, 189-193, 307-313
UploadFurniture ==
    /\ svc.pc = "furniture_upload"
    /\ \E answers \in HostingRuns :
         LET hosted == upload_image(svc.api_key, UploadFile(svc), answers)
             url == url_or_inline(hosted, UploadFile(svc))
             s == [svc EXCEPT !.furniture_url = url,
                              !.hosting_failed =
                                 IF hosted = "none" THEN @ \cup {"furniture"} ELSE @]
         IN svc' = IF url = "none"
                   THEN SvcRaise(s, "ValueError", "furniture_upload_failed")
                   ELSE [s EXCEPT !.pc = "create_task"]
    /\ UNCHANGED <<handler_vars, call, vis>>

\* Answers of the generative backend to the task creation request.
CreateTaskAnswers == {"task", "http_error", "bad_code", "no_task_id"}

\* nano_banana.py 122-160, 195-222, 316-376: the room image is opened for
\* its aspect ratio, then the one task of the call is posted.
CreateTask ==
    /\ svc.pc = "create_task"
    /\ IF svc.room_file # "image"
       THEN svc' = SvcRaise(svc, "OSError", "cannot_open_room")
       ELSE \E a \in CreateTaskAnswers :
              LET s == [svc EXCEPT !.tasks = @ + 1,
                                   !.image_input = <<svc.room_url, svc.furniture_url>>]
              IN svc' = IF a = "task"
                        THEN [s EXCEPT !.pc = "query"]
                        ELSE SvcRaise(s, IF a = "http_error" THEN "HTTPError" ELSE "ValueError", a)
    /\ UNCHANGED <<handler_vars, call, vis>>

\* Answers of the backend to one status query.
PollAnswers == {"waiting", "success", "success_no_result", "fail",
                "bad_code", "transport_error"}

\* A task that reported a final state keeps it.
PollAnswersAfter(last) ==
    IF last = "fail" THEN {"fail", "transport_error"}
    ELSE IF last \in {"success", "success_no_result"}
    THEN {"success", "success_no_result", "transport_error"}
    ELSE PollAnswers

\* The final state a task has reported so far.
TaskState(last, a) ==
    IF a \in {"fail", "success", "success_no_result"} THEN a
    ELSE IF last \in {"fail", "success", "success_no_result"} THEN last
    ELSE a

query_except_Swallow(attempt, msg) == [raised |-> FALSE, error |-> NoError]

\* nano_banana.py 452-455: what the except clause of the loop does with an
\* exception raised inside the try of attempt number attempt.
query_except(attempt, msg) ==
    IF attempt = max_attempts - 1
    THEN [raised |-> TRUE,
          error |-> [type |-> "Exception", msg |-> "timeout", inner |-> msg]]
    ELSE [raised |-> FALSE, error |-> NoError]

\* nano_banana.py 411-457: one pass of the polling loop.
QueryTaskResult ==
    /\ svc.pc = "query"
    /\ svc.attempt < max_attempts
    /\ \E a \in PollAnswersAfter(svc.last_answer) :
         LET s == [svc EXCEPT !.polls = @ + 1,
                              !.last_answer = TaskState(svc.last_answer, a)]
             next == [s EXCEPT !.attempt = @ + 1]
         IN svc' =
              IF a = "success"
              THEN Leave([s EXCEPT !.result = "image"])
              ELSE IF a = "waiting"
              THEN IF svc.attempt + 1 = max_attempts
                   THEN SvcRaise(next, "TimeoutError", "timeout")
                   ELSE next
              ELSE LET e == query_except(svc.attempt,
                                IF a = "fail" THEN "task_failed" ELSE a)
                   IN IF e.raised
                      THEN Leave([s EXCEPT !.error = e.error])
                      ELSE next
    /\ UNCHANGED <<handler_vars, call, vis>>

\* The temporary file of a composition function.
temp_file(fn) == IF fn = "place_furniture" THEN "rotated" ELSE "collage"

\* nano_banana.py 162-167, 386-392: the temporary file of the running
\* function is removed if it exists, an exception of os.remove being
\* passed over; then the result is returned or the exception propagates.
Cleanup ==
    /\ svc.pc = "finally"
    /\ \E removed \in BOOLEAN :
         /\ (~removed) => temp_file(svc.fn) \in svc.files
         /\ svc' = [svc EXCEPT
                      !.files = IF removed THEN @ \ {temp_file(svc.fn)} ELSE @,
                      !.remove_failed = ~removed,
                      !.pc = IF svc.error = NoError THEN "returned" ELSE "raised"]
    /\ UNCHANGED <<handler_vars, call, vis>>

InitCompose ==
    /\ HandlerInit
    /\ call = NoCall
    /\ vis = VisIdle
    /\ svc \in SvcCalls

NextCompose ==
    \/ PlaceMultiFurniture
    \/ UploadRoom
    \/ RotateFurniture
    \/ UploadFurniture
    \/ CreateTask
    \/ QueryTaskResult
    \/ Cleanup

SpecCompose == InitCompose /\ [][NextCompose]_vars

\* The composition call is one sequential function: every request it sends
\* has a timeout (nano_banana.py 413-418, timeout=30) and every sleep is
\* finite (446, 455), so a step that can be taken is taken.
SpecComposeFair == SpecCompose /\ WF_vars(NextCompose)

\* ================================================================ claims
\* ---------------------------------------------------------------------
\* The multi-item prompt on arbitrary analysis answers
\* (nano_banana.py 459-498).
\* ---------------------------------------------------------------------

\* Values of an entry's "index" field; IndexValues reaches past every
\* item count.
IndexValues == {0, 1, 4, 5}

\* Entries of furniture_items as the analysis can return them: with or
\* without an index, with no placement, an empty one, a partial or a full one.
ItemDicts ==
    {ix @@ pl :
       ix \in {EmptyDict} \cup {[index |-> i, type |-> "sofa"] : i \in IndexValues},
       pl \in {EmptyDict,
               [placement |-> EmptyDict],
               [placement |-> [x_percent |-> Whole(10)]],
               [placement |-> Rect(Whole(40), Whole(70), Whole(35), Whole(25))]}}

RECURSIVE SeqsUpTo(_, _)
SeqsUpTo(S, k) ==
    IF k = 0 THEN {<<>>}
    ELSE LET shorter == SeqsUpTo(S, k - 1)
         IN shorter \cup {Append(q, x) : q \in {r \in shorter : Len(r) = k - 1}, x \in S}

PromptCalls ==
    {[fn |-> "create_multi_placement_prompt", done |-> FALSE,
      num_items |-> n, furniture_items |-> items, parts |-> <<>>] :
        n \in 1..MAX_FURNITURE, items \in SeqsUpTo(ItemDicts, MaxListLen)}

\* nano_banana.py 459-498
CreateMultiPlacementPrompt ==
    /\ call.fn = "create_multi_placement_prompt"
    /\ ~call.done
    /\ call' = [call EXCEPT
                  !.done = TRUE,
                  !.parts = multi_parts(call.furniture_items, 0, call.num_items)]
    /\ UNCHANGED <<handler_vars, svc, vis>>

InitPrompt ==
    /\ HandlerInit
    /\ svc = SvcIdle
    /\ vis = VisIdle
    /\ call \in PromptCalls

NextPrompt == CreateMultiPlacementPrompt

SpecPrompt == InitPrompt /\ [][NextPrompt]_vars

\* ---------------------------------------------------------------------
\* The manual box on arbitrary boxes and room sizes (app.py 388-420).
\* ---------------------------------------------------------------------

\* Integer box fields as the form delivers them, and room sides.
BoxCoords == -2..(MaxRoom + 1)
BoxSizes == -1..(MaxRoom + 1)
RoomSides == 1..MaxRoom

BoxCalls ==
    {[fn |-> "manual_box", done |-> FALSE,
      box |-> <<x, y, w, h>>, rw |-> rw, rh |-> rh, wall_alignment |-> wall,
      clamped |-> <<>>, analysis |-> EmptyDict, stored_wall |-> "none"] :
        x \in BoxCoords, y \in BoxCoords, w \in BoxSizes, h \in BoxSizes,
        rw \in RoomSides, rh \in RoomSides, wall \in WallInputs}

\* app.py 389-420
ManualBox ==
    /\ call.fn = "manual_box"
    /\ ~call.done
    /\ LET cb == clamp_box(call.box, call.rw, call.rh)
       IN call' = [call EXCEPT
                     !.done = TRUE,
                     !.clamped = cb,
                     !.analysis = apply_manual_box(EmptyDict, call.box, call.rw, call.rh),
                     !.stored_wall =
                        IF call.wall_alignment = "auto"
                        THEN infer_wall_alignment(cb, call.rw)
                        ELSE call.wall_alignment]
    /\ UNCHANGED <<handler_vars, svc, vis>>

InitManualBox ==
    /\ HandlerInit
    /\ svc = SvcIdle
    /\ vis = VisIdle
    /\ call \in BoxCalls

NextManualBox == ManualBox

SpecManualBox == InitManualBox /\ [][NextManualBox]_vars

\* ---------------------------------------------------------------------
\* The vision analyzer's request loop (services/gpt4_analyzer.py).
\* ---------------------------------------------------------------------

\* Answers of the vision backend to one request.  "maintenance" is a body
\* with code 500 whose msg contains "maintained", under an HTTP status that
\* raise_for_status accepts.
VisionAnswers == {"maintenance", "answer", "no_choices", "empty_content",
                  "rejected_422", "http_error", "not_json_body",
                  "transport_error"}

\* The text of an answer, as a sequence of pieces: an opening or closing
\* fence (```json or ```), a complete JSON document, a run of text that is
\* not JSON, and a single whitespace character.
ContentPieces == {"fence_json", "fence", "json", "text", "space"}

\* gpt4_analyzer.py 141-144: the content handed to the parser is not empty.
Contents == SeqsUpTo(ContentPieces, MaxContent) \ {<<>>}

\* str.find: the first position from `from` on that holds one of the
\* pieces, 0 when there is none (Python's -1).
find(content, pieces, from) ==
    LET hits == {i \in from..Len(content) : content[i] \in pieces}
    IN IF hits = {} THEN 0 ELSE CHOOSE i \in hits : \A j \in hits : i <= j

\* content[start:-1], the slice taken when no closing fence follows: the
\* last character is lost, which removes a whitespace character and breaks
\* a JSON document.
slice_to_last(content, start) ==
    IF start > Len(content) THEN <<>>
    ELSE LET body == SubSeq(content, start, Len(content))
             last == body[Len(body)]
             init == SubSeq(body, 1, Len(body) - 1)
         IN IF last = "space" THEN init
            ELSE IF last = "json" THEN Append(init, "text")
            ELSE body

\* str.strip().
strip(content) ==
    LET solid == {i \in 1..Len(content) : content[i] # "space"}
    IN IF solid = {} THEN <<>>
       ELSE SubSeq(content,
                   CHOOSE i \in solid : \A j \in solid : i <= j,
                   CHOOSE i \in solid : \A j \in solid : i >= j)

\* gpt4_analyzer.py 527-538: the text between the fences, or the whole text.
\* "```" is a prefix of "```json", so a search for "```" stops at either.
json_str(content) ==
    LET opening == IF find(content, {"fence_json"}, 1) > 0
                   THEN find(content, {"fence_json"}, 1)
                   ELSE find(content, {"fence", "fence_json"}, 1)
    IN IF opening = 0 THEN strip(content)
       ELSE LET json_start == opening + 1
                json_end == find(content, {"fence", "fence_json"}, json_start)
            IN IF json_end = 0 THEN strip(slice_to_last(content, json_start))
               ELSE strip(SubSeq(content, json_start, json_end - 1))

\* json.loads accepts exactly one document.
json_loads_ok(text) == text = <<"json">>

\* gpt4_analyzer.py 515-571 _parse_analysis: the document is returned as
\* parsed; here it is the per-item answer for n items.
parse_analysis(content, n) ==
    IF json_loads_ok(json_str(content))
    THEN [raised |-> FALSE, kind |-> "parsed", analysis |-> AiItems(n)]
    ELSE parse_except(n)

NoResult == [kind |-> "none", analysis |-> EmptyDict]

VisCall(fn, n, room_file, furniture_file) ==
    [pc |-> "start", fn |-> fn, n |-> n,
     room_file |-> room_file, furniture_file |-> furniture_file,
     attempt |-> 0, answers |-> <<>>, delays |-> <<>>,
     content |-> <<>>, result |-> NoResult, error |-> NoError]

VisCalls ==
    {VisCall("analyze_multi_furniture_placement", n, rf, ff) :
        n \in 1..MAX_FURNITURE, rf \in FileStates, ff \in FileStates}
    \cup
    {VisCall("analyze_room_for_replace", 0, rf, "image") : rf \in FileStates}

VisRaise(v, msg) ==
    [v EXCEPT !.pc = "raised", !.error = SvcError("ValueError", msg)]

\* gpt4_analyzer.py 48-57, 165-167: the images become data URLs.
PrepareImages ==
    /\ vis.pc = "start"
    /\ vis' =
         IF image_to_data_url(vis.room_file) = "none"
         THEN VisRaise(vis, "cannot_read_room")
         ELSE IF vis.n > 0 /\ image_to_data_url(vis.furniture_file) = "none"
         THEN VisRaise(vis, "cannot_read_furniture")
         ELSE [vis EXCEPT !.pc = "request"]
    /\ UNCHANGED <<handler_vars, call, svc>>

maintenance_retry_Always(attempt) == TRUE

\* gpt4_analyzer.py 127, 202: a maintenance answer is retried after a sleep
\* unless it came on the last attempt.
maintenance_retry(attempt) == attempt < KIE_RETRY_COUNT - 1

\* gpt4_analyzer.py 113-133, 195-206: one pass of
\* for attempt in range(KIE_RETRY_COUNT).
SendRequest ==
    /\ vis.pc = "request"
    /\ vis.attempt < KIE_RETRY_COUNT
    /\ \E a \in VisionAnswers :
         LET v == [vis EXCEPT !.answers = Append(@, a)]
         IN vis' =
              IF a \in {"transport_error", "not_json_body", "rejected_422", "http_error"}
              THEN VisRaise(v, a)
              ELSE IF a = "maintenance"
              THEN IF maintenance_retry(vis.attempt)
                   THEN [v EXCEPT !.delays = Append(@, KIE_RETRY_DELAY),
                                  !.attempt = @ + 1,
                                  !.pc = IF vis.attempt + 1 < KIE_RETRY_COUNT
                                         THEN "request" ELSE "extract"]
                   ELSE VisRaise(v, "maintenance")
              ELSE [v EXCEPT !.pc = "extract"]
    /\ UNCHANGED <<handler_vars, call, svc>>

\* gpt4_analyzer.py 137-149, 208-229: the text of the answer is taken out
\* and parsed.  The replace analysis has its own parser, which answers with
\* the items found or with none.
ExtractContent ==
    /\ vis.pc = "extract"
    /\ LET a == vis.answers[Len(vis.answers)]
       IN IF a = "answer"
          THEN \E content \in Contents :
                 IF vis.fn = "analyze_room_for_replace"
                 THEN \E kind \in {"items", "no_items"} :
                        vis' = [vis EXCEPT !.pc = "returned",
                                           !.content = content,
                                           !.result = [kind |-> kind,
                                                       analysis |-> EmptyDict]]
                 ELSE LET r == parse_analysis(content, vis.n)
                      IN vis' =
                           IF r.raised
                           THEN [VisRaise(vis, "JSONDecodeError")
                                   EXCEPT !.content = content]
                           ELSE [vis EXCEPT !.pc = "returned",
                                            !.content = content,
                                            !.result = [kind |-> r.kind,
                                                        analysis |-> r.analysis]]
          ELSE vis' =
                 IF vis.fn = "analyze_room_for_replace"
                 THEN [vis EXCEPT !.pc = "returned",
                                  !.result = [kind |-> "no_items",
                                              analysis |-> EmptyDict]]
                 ELSE VisRaise(vis, IF a = "empty_content" THEN a ELSE "no_choices")
    /\ UNCHANGED <<handler_vars, call, svc>>

InitVision ==
    /\ HandlerInit
    /\ call = NoCall
    /\ svc = SvcIdle
    /\ vis \in VisCalls

NextVision ==
    \/ PrepareImages
    \/ SendRequest
    \/ ExtractContent

SpecVision == InitVision /\ [][NextVision]_vars

\* ---------------------------------------------------------------------
\* The result post-processing (utils/image_utils.py 121-142).
\* ---------------------------------------------------------------------

\* Image sides in pixels: thin images, sides around the limit, and large
\* ones up to more than max_long_side times a thin side.
ImageSides ==
    (1..MaxThin) \cup ((MAX_LONG_SIDE - 2)..(MAX_LONG_SIDE + 2))
      \cup {600, 1000, 1800, 2000, 2399, 2400, 2401, 3000, 5000}

\* image_utils.py 131-136: the new size, int() cutting the quotient.
scaled_size(sz, max_long_side) ==
    IF sz[1] >= sz[2]
    THEN <<max_long_side, (sz[2] * max_long_side) \div sz[1]>>
    ELSE <<(sz[1] * max_long_side) \div sz[2], max_long_side>>

\* image_utils.py 126-142: the size of the file after the call.  Image.resize
\* raises for a side below 1; the except clause swallows that and the file
\* stays as it was.
limit_image_size(sz, max_long_side) ==
    IF sz[1] <= max_long_side /\ sz[2] <= max_long_side
    THEN sz
    ELSE LET new == scaled_size(sz, max_long_side)
         IN IF new[1] < 1 \/ new[2] < 1 THEN sz ELSE new

ResizeCalls ==
    {[fn |-> "limit_image_size", passes |-> 0, original |-> <<w, h>>,
      first |-> <<w, h>>, size |-> <<w, h>>] : w \in ImageSides, h \in ImageSides}

\* app.py 440: limit_image_size(result_path, max_long_side=1200), and the
\* same call once more on its own output.
LimitImageSize ==
    /\ call.fn = "limit_image_size"
    /\ call.passes < 2
    /\ LET new == limit_image_size(call.size, MAX_LONG_SIDE)
       IN call' = [call EXCEPT !.passes = @ + 1,
                               !.size = new,
                               !.first = IF call.passes = 0 THEN new ELSE @]
    /\ UNCHANGED <<handler_vars, svc, vis>>

InitResize ==
    /\ HandlerInit
    /\ svc = SvcIdle
    /\ vis = VisIdle
    /\ call \in ResizeCalls

NextResize == LimitImageSize

SpecResize == InitResize /\ [][NextResize]_vars

\* ---------------------------------------------------------------------
\* The furniture collage (utils/image_utils.py 73-118).
\* ---------------------------------------------------------------------

\* Sizes <<w, h>> of furniture images.
FurnitureSizes == {1, 3, 400} \X {1, 300, 512, 513, 600, 900}

\* image_utils.py 100-104: the size an image has in the collage.
collage_item_size(sz, max_height) ==
    IF sz[2] > max_height
    THEN <<(sz[1] * max_height) \div sz[2], max_height>>
    ELSE sz

RECURSIVE SumWidths(_)
SumWidths(sizes) ==
    IF sizes = <<>> THEN 0 ELSE sizes[1][1] + SumWidths(Tail(sizes))

RECURSIVE MaxHeight(_)
MaxHeight(sizes) ==
    IF Len(sizes) = 1 THEN sizes[1][2]
    ELSE Max2(sizes[1][2], MaxHeight(Tail(sizes)))

\* image_utils.py 111-115: the paste positions, x running from padding.
RECURSIVE paste_positions(_, _, _, _)
paste_positions(sizes, x, max_h, padding) ==
    IF sizes = <<>>
    THEN <<>>
    ELSE <<[x |-> x, y |-> (max_h - sizes[1][2]) \div 2, size |-> sizes[1]] >>
           \o paste_positions(Tail(sizes), x + sizes[1][1] + padding, max_h, padding)

NoCollage == [raised |-> FALSE, canvas |-> <<0, 0>>, items |-> <<>>]

\* image_utils.py 92-118.  Image.resize raises for a side below 1, and
\* nothing in the function catches it.
create_furniture_collage(sizes, max_height, padding) ==
    IF sizes = <<>>
    THEN [NoCollage EXCEPT !.raised = TRUE]
    ELSE LET scaled == [k \in 1..Len(sizes) |-> collage_item_size(sizes[k], max_height)]
         IN IF \E k \in 1..Len(scaled) : scaled[k][1] < 1 \/ scaled[k][2] < 1
            THEN [NoCollage EXCEPT !.raised = TRUE]
            ELSE LET total_w == SumWidths(scaled) + padding * (Len(scaled) + 1)
                     max_h == MaxHeight(scaled) + padding * 2
                 IN [raised |-> FALSE,
                     canvas |-> <<total_w, max_h>>,
                     items |-> paste_positions(scaled, padding, max_h, padding)]

CollageCalls ==
    {[fn |-> "create_furniture_collage", done |-> FALSE, sizes |-> sizes,
      collage |-> NoCollage] :
        sizes \in SeqsUpTo(FurnitureSizes, MaxImages) \ {<<>>}}

\* nano_banana.py 78: create_furniture_collage(paths, collage_path,
\* max_height=512, padding=40)
CreateFurnitureCollage ==
    /\ call.fn = "create_furniture_collage"
    /\ ~call.done
    /\ call' = [call EXCEPT
                  !.done = TRUE,
                  !.collage = create_furniture_collage(call.sizes, COLLAGE_MAX_HEIGHT,
                                                       COLLAGE_PADDING)]
    /\ UNCHANGED <<handler_vars, svc, vis>>

InitCollage ==
    /\ HandlerInit
    /\ svc = SvcIdle
    /\ vis = VisIdle
    /\ call \in CollageCalls

NextCollage == CreateFurnitureCollage

SpecCollage == InitCollage /\ [][NextCollage]_vars

\* ---------------------------------------------------------------------
\* The furniture catalog (app.py 84-103, 572-620, 647-673).
\* ---------------------------------------------------------------------

ItemNames == {"sofa", "chair"}

\* An id stands for a uuid4 string; ids drawn at different times differ.
catalog_item(id, name) == [id |-> id, name |-> name]

\* The catalog file: missing, unreadable, or holding a list.
CatalogFile(state, items) == [state |-> state, items |-> items]

\* What the catalog file can hold when the server starts.
CatalogFiles ==
    {CatalogFile("absent", <<>>), CatalogFile("corrupt", <<>>),
     CatalogFile("list", <<>>),
     CatalogFile("list", <<catalog_item(0, "sofa")>>)}

\* app.py 84-92: a missing file and a file that cannot be read or parsed
\* both give the empty list.
load_catalog(file) ==
    IF file.state = "list" THEN file.items ELSE <<>>

\* What a write does to the catalog file: "written" stores the list; the
\* file cannot be opened ("refused"), or the write breaks off after the
\* file was truncated ("broken").
WriteOutcomes == {"written", "refused", "broken"}

\* app.py 94-100: the list is dumped to the file; an exception is printed
\* and not passed on, so the caller sees no difference.
save_catalog(file, items, outcome) ==
    CASE outcome = "written" -> CatalogFile("list", items)
      [] outcome = "refused" -> file
      [] outcome = "broken" -> CatalogFile("corrupt", <<>>)

\* [i for i in CATALOG_ITEMS if i['id'] != item_id]
RECURSIVE without_id(_, _)
without_id(items, item_id) ==
    IF items = <<>> THEN <<>>
    ELSE IF items[1].id = item_id
    THEN without_id(Tail(items), item_id)
    ELSE <<items[1]>> \o without_id(Tail(items), item_id)

ItemIds(items) == {items[k].id : k \in 1..Len(items)}

NoCatalogResponse == [op |-> "none", status |-> 0, success |-> FALSE]

CatalogStates ==
    {[fn |-> "catalog", loaded |-> load_catalog(file),
      CATALOG_ITEMS |-> load_catalog(file), file |-> file,
      added |-> {}, deleted |-> {}, next_id |-> 1, ops |-> 0,
      response |-> NoCatalogResponse] : file \in CatalogFiles}

\* app.py 572-620 add_catalog_item: the image is stored and processed
\* (any failure there answers 500 before the catalog is touched), the item
\* is appended and the catalog saved.
AddCatalogItem ==
    /\ call.fn = "catalog"
    /\ call.ops < MaxCatalogOps
    /\ \E name \in ItemNames, image_ok \in BOOLEAN, outcome \in WriteOutcomes :
         IF ~image_ok
         THEN call' = [call EXCEPT
                         !.ops = @ + 1,
                         !.response = [op |-> "add", status |-> 500,
                                       success |-> FALSE]]
         ELSE LET item == catalog_item(call.next_id, name)
                  items == Append(call.CATALOG_ITEMS, item)
              IN call' = [call EXCEPT
                            !.ops = @ + 1, !.next_id = @ + 1,
                            !.CATALOG_ITEMS = items,
                            !.file = save_catalog(call.file, items, outcome),
                            !.added = @ \cup {item.id},
                            !.response = [op |-> "add", status |-> 200,
                                          success |-> TRUE]]
    /\ UNCHANGED <<handler_vars, svc, vis>>

\* app.py 647-673 delete_catalog_item: 404 when no item has the id;
\* otherwise the image file is unlinked (a failure is printed), the items
\* with the id are dropped and the catalog saved.
DeleteCatalogItem ==
    /\ call.fn = "catalog"
    /\ call.ops < MaxCatalogOps
    /\ \E item_id \in 0..call.next_id, outcome \in WriteOutcomes :
         IF item_id \notin ItemIds(call.CATALOG_ITEMS)
         THEN call' = [call EXCEPT
                         !.ops = @ + 1,
                         !.response = [op |-> "delete", status |-> 404,
                                       success |-> FALSE]]
         ELSE LET items == without_id(call.CATALOG_ITEMS, item_id)
              IN call' = [call EXCEPT
                            !.ops = @ + 1,
                            !.CATALOG_ITEMS = items,
                            !.file = save_catalog(call.file, items, outcome),
                            !.deleted = @ \cup {item_id},
                            !.response = [op |-> "delete", status |-> 200,
                                          success |-> TRUE]]
    /\ UNCHANGED <<handler_vars, svc, vis>>

InitCatalog ==
    /\ HandlerInit
    /\ svc = SvcIdle
    /\ vis = VisIdle
    /\ call \in CatalogStates

NextCatalog ==
    \/ AddCatalogItem
    \/ DeleteCatalogItem

SpecCatalog == InitCatalog /\ [][NextCatalog]_vars

InFlight == req # NoReq
Done == pc = "done"
QuotaRejected == response.cause.msg = "trial_period_used_up"
PlaceMode == InFlight /\ ~is_replace_mode(req.placement_mode)
ReplaceMode == InFlight /\ is_replace_mode(req.placement_mode)
ItemCount == Len(req.paths.items)
PassedQuota == Len(steps) >= 1 /\ steps[1] = "quota" /\ ~QuotaExceeded(used)
AnalysisFailed == analysis_outcome \in AnalysisFailures \cup {"unreadable_image"}
CompositionInvoked == composed.strategy # "none"
CompositionFailed == response.cause.msg = "composition_failed"

\* C1: with limit L = TRIAL_LIMIT, a request of a client whose earlier
\* requests already produced L successful generations ends rejected, the
\* rejection naming used = L and limit = L; a request of a client with fewer
\* than L successful generations is never rejected by the quota, whatever
\* the other clients have used.
C1_QuotaRejection ==
    Done =>
      /\ successes[req.client] >= TRIAL_LIMIT =>
           /\ QuotaRejected
           /\ ~response.success
           /\ response.cause.used = TRIAL_LIMIT
           /\ response.cause.limit = TRIAL_LIMIT
      /\ successes[req.client] < TRIAL_LIMIT => ~QuotaRejected

C1_Witness ==
    /\ Done
    /\ QuotaRejected
    /\ response.cause.used = TRIAL_LIMIT
    /\ \E c \in Clients : c # req.client /\ successes[c] \in 1..(TRIAL_LIMIT - 1)

\* C2: between requests every client's stored count equals the number of
\* that client's requests answered with success; a request that ends
\* rejected or failed leaves its client's count as the quota check read it,
\* a successful one raises it by exactly one, and no step lowers a count.
C2_UsageCounting ==
    /\ [](pc = "idle" => \A c \in Clients : usage[c] = successes[c])
    /\ [](Done => usage[req.client] = used + (IF response.success THEN 1 ELSE 0))
    /\ [][\A c \in Clients : usage'[c] >= usage[c]]_vars

C2_Witness ==
    /\ pc = "idle"
    /\ \E c \in Clients : usage[c] = 2
    /\ \E c \in Clients : usage[c] = 0

\* C3: a request answered with the quota rejection has run no analysis call,
\* no composition call and no result post-processing: the quota check is the
\* only step it performed.
C3_RejectBeforePipeline ==
    (Done /\ QuotaRejected) =>
      /\ analysis_outcome = "none"
      /\ ~CompositionInvoked
      /\ steps = <<"quota">>

C3_Witness ==
    /\ Done
    /\ QuotaRejected
    /\ PlaceMode
    /\ req.paths.kind = "list"
    /\ ItemCount \in 1..MAX_FURNITURE
    /\ req.room_readable
    /\ rotation_ok(req.furniture_rotation)

\* C4 as stated, on requests whose room image is readable: a place-mode
\* request with 1 to 5 items that passed the quota check and whose analysis
\* call failed still has the composition invoked, and succeeds whenever the
\* composition succeeds.
C4_Original ==
    (Done /\ PlaceMode /\ PassedQuota /\ req.paths.kind = "list"
          /\ ItemCount \in 1..MAX_FURNITURE /\ AnalysisFailed
          /\ req.room_readable) =>
      /\ CompositionInvoked
      /\ response.success \/ CompositionFailed

\* C4 amended: the same, for requests whose furniture_rotation is 0 or 90
\* and whose room image can be opened when a manual box is applied: the
\* analysis failure never ends the request, the composition is invoked with
\* the substituted layout, and the request succeeds unless the composition
\* itself fails.
C4_AnalysisDegrades ==
    (Done /\ PlaceMode /\ PassedQuota /\ req.paths.kind = "list"
          /\ ItemCount \in 1..MAX_FURNITURE /\ AnalysisFailed
          /\ rotation_ok(req.furniture_rotation)
          /\ (manual_box = NoBox \/ req.room_readable)) =>
      /\ CompositionInvoked
      /\ analysis["furniture_items"] = fallback_analysis(ItemCount)["furniture_items"]
      /\ response.success \/ CompositionFailed

C4_Witness ==
    /\ Done
    /\ PlaceMode
    /\ analysis_outcome = "network_error"
    /\ ItemCount = 3
    /\ CompositionInvoked
    /\ response.success

\* The rectangle derived from the clamped manual box (app.py 395-404).
ManualRect == RectOf(manual_placement(clamp_box(manual_box, RoomSize[1], RoomSize[2]),
                                      RoomSize[1], RoomSize[2]))

\* C5: when a manual box was applied, every placement rectangle named in the
\* generation instructions of the composition is the one derived from the
\* clamped manual box.
C5_ManualBoxWins ==
    (PlaceMode /\ CompositionInvoked /\ manual_box # NoBox) =>
      /\ Len(composed.prompt.rects) >= 1
      /\ \A k \in 1..Len(composed.prompt.rects) : composed.prompt.rects[k] = ManualRect

\* C6: in the single-item path the furniture image is turned exactly when
\* the request's furniture_rotation is 90, the prompt carries the rotation
\* hint exactly then, and the wall hint names the resolved wall_alignment.
C6_RequestRotationWins ==
    (PlaceMode /\ composed.strategy = "single") =>
      /\ composed.rotated = (req.furniture_rotation = 90)
      /\ composed.prompt.rotation_hint = (req.furniture_rotation = 90)
      /\ composed.prompt.wall_hint =
           (IF wall_alignment \in {"right", "left", "back"} THEN wall_alignment ELSE "none")

\* C7: a request whose furniture_rotation is neither 0 nor 90 never has a
\* composition call made for it and never ends in success, in place mode
\* and in replace mode alike.
C7_RotationValidated ==
    (InFlight /\ ~rotation_ok(req.furniture_rotation)) =>
      /\ ~CompositionInvoked
      /\ ~response.success

\* C8: a request that ends on a validation failure is answered with status
\* 400 and one that ends on the quota rejection with status 403, so that
\* neither carries the status 500 of a backend or internal failure.
C8_ErrorClasses ==
    Done =>
      /\ response.cause.status = 400 => response.status = 400
      /\ QuotaRejected => response.status = 403

\* C9: a place-mode request whose furniture_image_paths is not a list, is
\* empty or has more than 5 entries never reaches the analysis call nor a
\* composition call, and does not end in success.
C9_ItemCountValidated ==
    (PlaceMode /\ (req.paths.kind = "not_list" \/ ItemCount = 0 \/ ItemCount > 5)) =>
      /\ analysis_outcome = "none"
      /\ ~CompositionInvoked
      /\ ~response.success

C9_Witness ==
    /\ Done
    /\ PlaceMode
    /\ ItemCount = 6
    /\ response.cause.msg = "max_5_items"

\* C10: a replace-mode request with a list of other than exactly one path
\* never has the replace composition invoked and does not end in success;
\* with exactly one path, past the quota check, it ends in success with
\* preserves_original false and furniture_count 1 unless the composition
\* fails.
C10_ReplaceArity ==
    /\ (ReplaceMode /\ req.paths.kind = "list" /\ ItemCount # 1) =>
         (~CompositionInvoked /\ ~response.success)
    /\ (Done /\ ReplaceMode /\ req.paths.kind = "list" /\ ItemCount = 1 /\ PassedQuota) =>
         \/ /\ response.success
            /\ response.preserves_original = FALSE
            /\ response.furniture_count = 1
            /\ composed.strategy = "replace"
         \/ CompositionFailed

C10_Witness ==
    /\ Done
    /\ ReplaceMode
    /\ ItemCount = 1
    /\ response.success
    /\ response.preserves_original = FALSE
    /\ response.furniture_count = 1

\* How many times a step of the handler ran in the current request.
StepCount(name) == Cardinality({k \in 1..Len(steps) : steps[k] = name})

\* C11: a replace-mode request never runs the vision analysis, never
\* resolves or applies a manual box or point, never infers a wall, and never
\* finalizes a placement; it makes at most one composition call, which is
\* the replace composition of the room image with the single furniture image
\* and names no rectangle, rotation or wall; a request with exactly one path
\* that passed the quota check ends having made exactly one such call.
C11_ReplaceNoGeometry ==
    ReplaceMode =>
      /\ analysis_outcome = "none"
      /\ analysis = EmptyDict
      /\ manual_box = NoBox
      /\ wall_alignment = req.wall_alignment
      /\ StepCount("analysis") = 0
      /\ StepCount("manual_box") = 0
      /\ StepCount("finalize") = 0
      /\ StepCount("compose") <= 1
      /\ CompositionInvoked <=> StepCount("compose") = 1
      /\ CompositionInvoked =>
           /\ composed.strategy = "replace"
           /\ composed.furniture = <<req.paths.items[1]>>
           /\ ItemCount = 1
           /\ composed.collages = 0
           /\ composed.prompt.rects = <<>>
      /\ (Done /\ PassedQuota /\ req.paths.kind = "list" /\ ItemCount = 1) =>
           StepCount("compose") = 1

C11_Witness ==
    /\ Done
    /\ ReplaceMode
    /\ response.success
    /\ req.mode = "manual"
    /\ req.manual_box # NoBox
    /\ req.wall_alignment = "auto"
    /\ StepCount("compose") = 1
    /\ composed.strategy = "replace"

\* The running service call came from place_multi_furniture.
PlaceCall == svc.pc # "idle" /\ svc.fn # "place_furniture_replace"

\* C12: in a place-mode composition with one furniture image the
\* single-item function runs and no collage is ever built; with 2 to 5
\* images the collage function runs on one collage built from all of them;
\* in both cases at most one generation task is posted, it carries exactly
\* two images (the room and the furniture image or the collage), and a call
\* that returns a result has posted exactly one task (and, with 2 to 5
\* images, built exactly one collage).
C12_StrategyDispatch ==
    PlaceCall =>
      /\ svc.tasks <= 1
      /\ svc.collages <= 1
      /\ svc.tasks = 1 => Len(svc.image_input) = 2
      /\ svc.pc = "returned" => svc.tasks = 1
      /\ svc.n = 1 =>
           /\ svc.collages = 0
           /\ "collage" \notin svc.files
           /\ svc.upload_path # "collage"
           /\ svc.pc # "start" => svc.fn = "place_furniture"
      /\ svc.n \in 2..MAX_FURNITURE =>
           /\ svc.fn # "place_furniture"
           /\ svc.upload_path # "rotated"
           /\ svc.tasks = 1 =>
                (svc.collages = 1 /\ svc.fn = "place_furniture_single_call"
                                   /\ svc.upload_path = "collage")
           /\ svc.pc = "returned" => svc.collages = 1

C12_Witness ==
    /\ PlaceCall
    /\ svc.n = MAX_FURNITURE
    /\ svc.pc = "returned"
    /\ svc.collages = 1
    /\ svc.tasks = 1
    /\ svc.polls > 1

\* furniture_items without the entries whose index is itemCount or more.
InRangeEntries(items, n) ==
    LET Keep(x) == ~("index" \in DOMAIN x /\ x["index"] >= n)
    IN SelectSeq(items, Keep)

\* C13: for every item count n in 1..5 and every furniture_items list
\* (empty, shorter or longer than n, entries without index, with repeated
\* index, with index n or more), the multi-item prompt has exactly n
\* placement clauses, clause k (k = 1..n) being the one of index k-1, and
\* the clauses are those of the list with the entries of index n or more
\* removed.
C13_ClauseCount ==
    (call.fn = "create_multi_placement_prompt" /\ call.done) =>
      /\ Len(call.parts) = call.num_items
      /\ \A k \in 1..Len(call.parts) :
           /\ call.parts[k].item = k
           /\ call.parts[k].rect =
                multi_clause(call.furniture_items, k - 1, call.num_items)
      /\ call.parts =
           multi_parts(InRangeEntries(call.furniture_items, call.num_items),
                       0, call.num_items)

C13_Witness ==
    /\ call.fn = "create_multi_placement_prompt"
    /\ call.done
    /\ call.num_items = 2
    /\ Len(call.furniture_items) = 3
    /\ "index" \notin DOMAIN call.furniture_items[1]
    /\ Get(call.furniture_items[2], "index", -1) = 5
    /\ Get(call.furniture_items[3], "index", -1) = 1
    /\ Len(call.parts) = 2

\* The fraction <<p, q>> has the value a / b.
FracIs(f, a, b) == f[2] > 0 /\ f[1] * b = a * f[2]

\* The item entries of the layout substituted for a failed analysis.
FallbackItems == analysis["furniture_items"]

\* C14: once the analysis of a place-mode request with n items has failed,
\* the layout in use has n entries, entry i (from 0) having
\* x_percent = 25 + i*50/max(1, n-1), y_percent = 55 + (i mod 2)*8,
\* width_percent = 30/n, height_percent = 25/n, rotation 0 and
\* wall_alignment auto; for n = 3 the x_percents are 25, 50, 75 and the
\* widths 10; for n = 1 the rectangle handed to the composition has
\* x_percent 25.
C14_FallbackLayout ==
    (PlaceMode /\ AnalysisFailed /\ analysis # EmptyDict) =>
      LET n == ItemCount
          d == Max2(1, n - 1)
      IN /\ n \in 1..MAX_FURNITURE
         /\ Len(FallbackItems) = n
         /\ \A i \in 0..(n - 1) :
              LET pl == FallbackItems[i + 1]["placement"]
              IN /\ FallbackItems[i + 1]["index"] = i
                 /\ FracIs(pl["x_percent"], 25 * d + i * 50, d)
                 /\ FracIs(pl["y_percent"], 55 + (i % 2) * 8, 1)
                 /\ FracIs(pl["width_percent"], 30, n)
                 /\ FracIs(pl["height_percent"], 25, n)
                 /\ pl["rotation"] = 0
                 /\ pl["wall_alignment"] = "auto"
         /\ n = 3 =>
              /\ [k \in 1..3 |-> FallbackItems[k]["placement"]["x_percent"]]
                   = <<Whole(25), Whole(50), Whole(75)>>
              /\ \A k \in 1..3 :
                   FallbackItems[k]["placement"]["width_percent"] = Whole(10)
         /\ (n = 1 /\ CompositionInvoked) =>
              /\ composed.strategy = "single"
              /\ Len(composed.prompt.rects) = 1
              /\ composed.prompt.rects[1][1] = Whole(25)

C14_Witness ==
    /\ Done
    /\ PlaceMode
    /\ AnalysisFailed
    /\ ItemCount = 1
    /\ response.success
    /\ composed.strategy = "single"
    /\ composed.prompt.rects[1][1] = Whole(25)

\* Comparison and distance of fractions with positive denominators.
FracLeq(a, b) == a[1] * b[2] <= b[1] * a[2]
FracLess(a, b) == a[1] * b[2] < b[1] * a[2]
FracDist(a, b) == <<Abs(a[1] * b[2] - b[1] * a[2]), a[2] * b[2]>>
FracHalfSum(a, b) == <<a[1] * b[2] + b[1] * a[2], 2 * a[2] * b[2]>>

\* Two rectangles given by centre and size share no interior point.
Disjoint(p, q) ==
    \/ FracLeq(FracHalfSum(p["width_percent"], q["width_percent"]),
               FracDist(p["x_percent"], q["x_percent"]))
    \/ FracLeq(FracHalfSum(p["height_percent"], q["height_percent"]),
               FracDist(p["y_percent"], q["y_percent"]))

\* C15: in the layout substituted for a failed analysis, for every item
\* count 1..5, the rectangles centred at (x_percent, y_percent) with the
\* given width and height are pairwise non-overlapping, the x centres grow
\* strictly with the item index, and every x centre lies in [25, 75].
C15_FallbackDisjoint ==
    (PlaceMode /\ AnalysisFailed /\ analysis # EmptyDict) =>
      LET n == Len(FallbackItems)
          P(k) == FallbackItems[k]["placement"]
      IN /\ \A j, k \in 1..n : j < k =>
              /\ Disjoint(P(j), P(k))
              /\ FracLess(P(j)["x_percent"], P(k)["x_percent"])
         /\ \A k \in 1..n :
              /\ FracLeq(Whole(25), P(k)["x_percent"])
              /\ FracLeq(P(k)["x_percent"], Whole(75))

C15_Witness ==
    /\ PlaceMode
    /\ AnalysisFailed
    /\ pc = "compose"
    /\ Len(FallbackItems) = MAX_FURNITURE
    /\ FallbackItems[2]["placement"]["x_percent"] = Frac(75, 2)

\* The margin of the clamped box that a wall name stands for.
Margin(wall, cb, rw) ==
    CASE wall = "left" -> cb[1]
      [] wall = "right" -> rw - (cb[1] + cb[3])
      [] wall = "back" -> cb[2]

\* C16: when the request's wall_alignment is auto and a manual box has been
\* applied, the wall_alignment kept for the placement is left, right or
\* back, never auto, and the margin it names (left = x, right =
\* width - (x + w), back = y of the clamped box) is no larger than the other
\* two; a room 1000 x 800 with box (10, 300, 200, 200) gets left, and with
\* box (700, 10, 200, 200) gets back.
C16_WallInference ==
    /\ (call.fn = "manual_box" /\ call.done /\ call.wall_alignment = "auto") =>
         /\ call.stored_wall \in {"left", "right", "back"}
         /\ \A other \in {"left", "right", "back"} :
              Margin(call.stored_wall, call.clamped, call.rw)
                <= Margin(other, call.clamped, call.rw)
    /\ infer_wall_alignment(clamp_box(<<10, 300, 200, 200>>, 1000, 800), 1000) = "left"
    /\ infer_wall_alignment(clamp_box(<<700, 10, 200, 200>>, 1000, 800), 1000) = "back"

C16_Witness ==
    /\ call.fn = "manual_box"
    /\ call.done
    /\ call.wall_alignment = "auto"
    /\ call.stored_wall = "back"
    /\ call.box[2] < 0
    /\ call.clamped[2] < call.clamped[1]
    /\ call.clamped[2] < call.rw - (call.clamped[1] + call.clamped[3])

\* C17: for every integer box (x, y, w, h), negative, empty or outside the
\* room included, and every room of width and height at least 1, the
\* clamped box has 0 <= x <= width - 1 and 1 <= w <= width - x (likewise y
\* and h against height), and the placement written from it has x_percent
\* and y_percent in [0, 100] and width_percent and height_percent in
\* (0, 100].
C17_BoxNormalized ==
    (call.fn = "manual_box" /\ call.done) =>
      LET cb == call.clamped
          pl == call.analysis["placement"]
      IN /\ 0 <= cb[1] /\ cb[1] <= call.rw - 1
         /\ 1 <= cb[3] /\ cb[3] <= call.rw - cb[1]
         /\ 0 <= cb[2] /\ cb[2] <= call.rh - 1
         /\ 1 <= cb[4] /\ cb[4] <= call.rh - cb[2]
         /\ \A key \in {"x_percent", "y_percent"} :
              FracLeq(Whole(0), pl[key]) /\ FracLeq(pl[key], Whole(100))
         /\ \A key \in {"width_percent", "height_percent"} :
              FracLess(Whole(0), pl[key]) /\ FracLeq(pl[key], Whole(100))
         /\ \A key \in RectKeys : pl[key][2] > 0

C17_Witness ==
    /\ call.fn = "manual_box"
    /\ call.done
    /\ call.box[1] < 0
    /\ call.box[2] > call.rh
    /\ call.box[3] = 0
    /\ call.box[4] > call.rh
    /\ call.clamped = <<0, call.rh - 1, 1, 1>>

\* The polling loop of the running call is over.
PollingOver == svc.pc \in {"finally", "returned", "raised"}

\* C18: once a status query has answered that the task failed, the polling
\* loop is over, no further query being issued, and the exception that
\* leaves it carries the backend's failure reason; once a query has
\* answered success with a result, the image has been fetched and the loop
\* is over.
C18_PollingStopsOnFail ==
    /\ (svc.pc # "idle" /\ svc.last_answer = "fail") =>
         /\ PollingOver
         /\ "task_failed" \in {svc.error.msg, svc.error.inner}
    /\ (svc.pc # "idle" /\ svc.last_answer = "success") =>
         /\ PollingOver
         /\ svc.result = "image"

\* The answers the analyzer has received before the latest one.
EarlierAnswers == SubSeq(vis.answers, 1, Len(vis.answers) - 1)

\* C19: the analyzer sends at most KIE_RETRY_COUNT = 3 requests; every
\* answer but the latest was the maintenance condition, so a request that
\* got any other answer is the last one; before each further request it
\* sleeps the same KIE_RETRY_DELAY; and when the third answer is the
\* maintenance condition too, the analyzer raises its maintenance error.
C19_MaintenanceRetry ==
    vis.pc # "idle" =>
      /\ Len(vis.answers) <= KIE_RETRY_COUNT
      /\ \A k \in 1..Len(EarlierAnswers) : EarlierAnswers[k] = "maintenance"
      /\ Len(vis.delays) = (IF vis.pc = "request"
                            THEN Len(vis.answers)
                            ELSE Len(EarlierAnswers))
      /\ \A k \in 1..Len(vis.delays) : vis.delays[k] = KIE_RETRY_DELAY
      /\ (Len(vis.answers) = KIE_RETRY_COUNT
            /\ vis.answers[KIE_RETRY_COUNT] = "maintenance") =>
           (vis.pc = "raised" /\ vis.error.msg = "maintenance")
      /\ (vis.answers # <<>> /\ vis.answers[Len(vis.answers)] # "maintenance") =>
           vis.pc # "request"

C19_Witness ==
    /\ vis.pc = "raised"
    /\ vis.error.msg = "maintenance"
    /\ vis.answers = <<"maintenance", "maintenance", "maintenance">>
    /\ vis.delays = <<KIE_RETRY_DELAY, KIE_RETRY_DELAY>>

\* The running call ended without posting a task.
EndedUnsubmitted == svc.pc \in {"finally", "returned", "raised"} /\ svc.tasks = 0

\* C20: in each of the three composition functions, an image whose upload
\* to the hosting gave no URL goes on as its inline data URL whenever that
\* can be produced, and the call is not ended by the upload step; the step
\* ends the call only when the hosting gave no URL and no data URL could be
\* produced either; the task posted carries the inline URL for exactly the
\* images the hosting failed on; a call that ends without posting a task
\* was ended by an unreadable or undecodable image, never by the hosting.
C20_HostingFallback ==
    svc.pc # "idle" =>
      /\ ("room" \in svc.hosting_failed /\ svc.room_file # "missing") =>
           (svc.room_url = "inline" /\ svc.error.msg # "room_upload_failed")
      /\ ("furniture" \in svc.hosting_failed /\ UploadFile(svc) # "missing") =>
           (svc.furniture_url = "inline" /\ svc.error.msg # "furniture_upload_failed")
      /\ svc.error.msg = "room_upload_failed" =>
           ("room" \in svc.hosting_failed /\ svc.room_file = "missing")
      /\ svc.error.msg = "furniture_upload_failed" =>
           ("furniture" \in svc.hosting_failed /\ UploadFile(svc) = "missing")
      /\ svc.tasks > 0 =>
           svc.image_input =
             <<IF "room" \in svc.hosting_failed THEN "inline" ELSE "hosted",
               IF "furniture" \in svc.hosting_failed THEN "inline" ELSE "hosted">>
      /\ EndedUnsubmitted =>
           \/ svc.room_file # "image"
           \/ svc.furniture_file # "image"

C20_Witness ==
    /\ svc.pc = "returned"
    /\ svc.fn = "place_furniture_single_call"
    /\ svc.api_key
    /\ svc.hosting_failed = {"room", "furniture"}
    /\ svc.image_input = <<"inline", "inline">>
    /\ svc.tasks = 1

\* C21: after limit_image_size with limit 1200 the longest side of the
\* image is at most 1200, whatever the input size; an image with both sides
\* at most 1200 keeps its dimensions; 2000 x 1000 becomes 1200 x 600; a
\* second application changes nothing.
C21_ResultSizeBound ==
    (call.fn = "limit_image_size" /\ call.passes >= 1) =>
      /\ Max2(call.size[1], call.size[2]) <= MAX_LONG_SIDE
      /\ Max2(call.original[1], call.original[2]) <= MAX_LONG_SIDE =>
           call.size = call.original
      /\ call.original = <<2000, 1000>> => call.size = <<1200, 600>>
      /\ call.passes = 2 => call.size = call.first

\* The sum of the widths of the first k items pasted.
RECURSIVE WidthBefore(_, _)
WidthBefore(items, k) ==
    IF k = 0 THEN 0 ELSE items[k].size[1] + WidthBefore(items, k - 1)

\* The layout the collage function is described to produce.
CollageAsDescribed(c, sizes) ==
    /\ ~c.raised
    /\ Len(c.items) = Len(sizes)
    /\ \A k \in 1..Len(sizes) :
         /\ c.items[k].size =
              IF sizes[k][2] > COLLAGE_MAX_HEIGHT
              THEN <<(sizes[k][1] * COLLAGE_MAX_HEIGHT) \div sizes[k][2], COLLAGE_MAX_HEIGHT>>
              ELSE sizes[k]
         /\ c.items[k].x = COLLAGE_PADDING * k + WidthBefore(c.items, k - 1)
    /\ c.canvas[1] = WidthBefore(c.items, Len(c.items))
                       + COLLAGE_PADDING * (Len(sizes) + 1)
    /\ \A k \in 1..Len(sizes) : c.items[k].size[2] + 2 * COLLAGE_PADDING <= c.canvas[2]
    /\ \E k \in 1..Len(sizes) : c.items[k].size[2] + 2 * COLLAGE_PADDING = c.canvas[2]

\* C22: for every non-empty list of images the collage is built; each image
\* higher than 512 is scaled to height 512 and width floor(w*512/h), the
\* others keep their size; the canvas is the sum of the scaled widths plus
\* padding*(count+1) wide and the largest scaled height plus 2*padding high;
\* the items stand left to right in input order, padding apart; heights
\* 300, 600, 900 give a canvas 592 high.
C22_CollageLayout ==
    (call.fn = "create_furniture_collage" /\ call.done) =>
      /\ CollageAsDescribed(call.collage, call.sizes)
      /\ [k \in 1..Len(call.sizes) |-> call.sizes[k][2]] = <<300, 600, 900>> =>
           call.collage.canvas[2] = 592

\* C23: whenever the placement analyzer was handed an answer whose text,
\* with its fence stripped, is not one parseable JSON document, the call has
\* returned without raising, and what it returned is the hardcoded default
\* analysis: room style "modern" and a placement centred at 50%/50% of size
\* 30% x 30%.
C23_SoftParseFailure ==
    (/\ vis.pc \in {"returned", "raised"}
     /\ vis.fn = "analyze_multi_furniture_placement"
     /\ vis.content # <<>>
     /\ ~json_loads_ok(json_str(vis.content)))
    => /\ vis.pc = "returned"
       /\ vis.result.kind = "default"
       /\ vis.result.analysis.room_analysis.style = "modern"
       /\ vis.result.analysis.placement.x_percent = Whole(50)
       /\ vis.result.analysis.placement.y_percent = Whole(50)
       /\ vis.result.analysis.placement.width_percent = Whole(30)
       /\ vis.result.analysis.placement.height_percent = Whole(30)

\* A fenced answer whose inside is not JSON was parsed.
C23_Witness ==
    /\ vis.pc = "returned"
    /\ vis.fn = "analyze_multi_furniture_placement"
    /\ vis.content = <<"fence_json", "text", "fence">>
    /\ vis.result.kind = "default"

\* The place-mode steps in the order the claim gives them, with the
\* validation of the request between the quota check and the analysis.
PipelineOrder ==
    <<"quota", "validate", "analysis", "manual_box", "finalize", "compose",
      "resize">>

StepRank(name) == CHOOSE r \in 1..Len(PipelineOrder) : PipelineOrder[r] = name

\* C24: within one place-mode request the steps taken so far are in the
\* fixed order quota check, analysis (or fallback substitution), manual-box
\* application, finalization, composition, result resize, each at most once;
\* a step is taken only after every earlier step has been taken and has
\* finished (the manual-box step being taken only when a box was resolved),
\* so manual-box application never precedes analysis.
C24_PipelineOrder ==
    (InFlight /\ PlaceMode) =>
        /\ \A k \in 1..(Len(steps) - 1) :
               StepRank(steps[k]) < StepRank(steps[k + 1])
        /\ \A k \in 1..Len(steps) :
             \A r \in 1..(StepRank(steps[k]) - 1) :
                 \/ \E j \in 1..(k - 1) : steps[j] = PipelineOrder[r]
                 \/ PipelineOrder[r] = "manual_box" /\ manual_box = NoBox
        /\ \A k \in 1..Len(steps) :
             steps[k] = "manual_box" =>
                 \E j \in 1..(k - 1) : steps[j] = "analysis"

\* A place-mode request with a manual box went through all the steps.
C24_Witness ==
    /\ InFlight /\ PlaceMode
    /\ manual_box # NoBox
    /\ steps = PipelineOrder

\* C25: in the inference of the wall from a manual box, "right" is returned
\* exactly when the right margin is the minimum of (left, right, top), ties
\* included; "left" exactly when the left margin is the minimum and the right
\* margin is larger; and "back" exactly when the top margin is strictly
\* smaller than both side margins.  A tie between the top margin and a side
\* margin goes to the side.
C25_TieBreak ==
    (call.fn = "manual_box" /\ call.done /\ call.wall_alignment = "auto") =>
        LET left_margin == Margin("left", call.clamped, call.rw)
            right_margin == Margin("right", call.clamped, call.rw)
            top_margin == Margin("back", call.clamped, call.rw)
        IN /\ call.stored_wall = "right" <=>
                (right_margin <= left_margin /\ right_margin <= top_margin)
           /\ call.stored_wall = "left" <=>
                (left_margin < right_margin /\ left_margin <= top_margin)
           /\ call.stored_wall = "back" <=>
                (top_margin < left_margin /\ top_margin < right_margin)

\* The top margin tied with the left margin for the minimum.
C25_Witness ==
    /\ call.fn = "manual_box"
    /\ call.done
    /\ call.wall_alignment = "auto"
    /\ Margin("left", call.clamped, call.rw) = Margin("back", call.clamped, call.rw)
    /\ Margin("left", call.clamped, call.rw) < Margin("right", call.clamped, call.rw)
    /\ call.stored_wall = "left"

\* C25 as stated: whenever neither side margin is strictly the smallest of
\* (left, right, top) the inferred wall is "back", and "right" or "left" is
\* inferred only when that side's margin is strictly smaller than the top
\* margin.
C25_Original ==
    (call.fn = "manual_box" /\ call.done /\ call.wall_alignment = "auto") =>
        LET left_margin == Margin("left", call.clamped, call.rw)
            right_margin == Margin("right", call.clamped, call.rw)
            top_margin == Margin("back", call.clamped, call.rw)
        IN /\ (/\ ~(left_margin < right_margin /\ left_margin < top_margin)
               /\ ~(right_margin < left_margin /\ right_margin < top_margin))
              => call.stored_wall = "back"
           /\ call.stored_wall = "right" => right_margin < top_margin
           /\ call.stored_wall = "left" => left_margin < top_margin

\* The rectangle <<x, y, w, h>> of the request-level fallback layout for
\* item i of n.
FallbackRect(i, n) ==
    LET pl == fallback_item_placement(i, n)
    IN <<pl.x_percent, pl.y_percent, pl.width_percent, pl.height_percent>>

\* The prompt builder finds no placement for index idx: no entry carries the
\* index, or the first that does has no placement.
NoPlacementFor(items, idx) ==
    LET found == ItemIndexes(items, idx)
    IN \/ found = {}
       \/ ~Truthy(Get(items[FirstIndex(found)], "placement", EmptyDict))

\* C26: for every n in 2..5 and every index i below n for which the
\* multi-item prompt builder finds no placement, the rectangle of clause i
\* is the one of the request-level fallback layout for item i of n:
\* x = 25 + i*50/max(1, n-1), y = 55 + (i mod 2)*8, width = 30/n,
\* height = 25/n.
C26_BackfillEqualsFallback ==
    (/\ call.fn = "create_multi_placement_prompt"
     /\ call.done
     /\ call.num_items \in 2..MAX_FURNITURE)
    => \A idx \in 0..(call.num_items - 1) :
         NoPlacementFor(call.furniture_items, idx) =>
             call.parts[idx + 1].rect = FallbackRect(idx, call.num_items)

\* The analysis of a place-mode request whose vision answer was not JSON is
\* at, or past, the composition call.
MalformedAtComposition ==
    /\ PlaceMode
    /\ analysis_outcome = "not_json"
    /\ (pc = "compose" \/ CompositionInvoked)

\* C27: in place mode, when the vision backend answers with text that is
\* not JSON, the analysis handed to composition is the parser's hardcoded
\* default: it has the default room analysis, no furniture_items, and (when no
\* manual box overrides it) the placement rectangle 50/50/30/30.  The
\* fallback layout with its per-item furniture_items is what composition
\* gets only when the vision call raises, as on a network error.
C27_MalformedGetsDefault ==
    /\ MalformedAtComposition =>
         /\ "furniture_items" \notin DOMAIN analysis
         /\ analysis.room_analysis = default_analysis.room_analysis
         /\ manual_box = NoBox =>
              \A key \in RectKeys :
                 analysis.placement[key] = default_analysis.placement[key]
    /\ (/\ PlaceMode
        /\ analysis_outcome = "network_error"
        /\ (pc = "compose" \/ CompositionInvoked))
       => /\ "furniture_items" \in DOMAIN analysis
          /\ analysis.furniture_items = fallback_analysis(ItemCount).furniture_items

\* Two items were handed to composition after an answer that was not JSON.
C27_Witness ==
    /\ MalformedAtComposition
    /\ ItemCount = 2
    /\ CompositionInvoked
    /\ manual_box = NoBox

\* C27 as stated: after an answer that was not JSON, composition gets the
\* per-item furniture_items of the fallback layout.
C27_Original ==
    MalformedAtComposition =>
        Get(analysis, "furniture_items", <<>>)
            = fallback_analysis(ItemCount).furniture_items

\* No status query of the running call has reported a final state.
NoFinalState == svc.last_answer \notin {"fail", "success", "success_no_result"}

\* C28: the polling loop issues at most max_attempts status queries; as long
\* as the answers are in-progress or unknown states, unexpected codes or
\* transport errors, it goes on to the next query and ends only after query
\* number max_attempts, by raising a timeout error; and a call that is
\* polling always gets out of the polling loop.
C28_PollingBounded ==
    /\ [](svc.pc # "idle" => svc.polls <= max_attempts)
    /\ []((PollingOver /\ svc.polls > 0 /\ NoFinalState) =>
            /\ svc.polls = max_attempts
            /\ svc.error.msg = "timeout"
            /\ svc.error.type \in {"TimeoutError", "Exception"})
    /\ (svc.pc = "query" ~> PollingOver)

\* All max_attempts queries answered in-progress and the call timed out.
C28_Witness ==
    /\ svc.pc = "raised"
    /\ svc.polls = max_attempts
    /\ svc.last_answer = "waiting"
    /\ svc.error.type = "TimeoutError"

\* C29: after any sequence of catalog add and delete operations the
\* in-memory catalog holds exactly the items loaded or added and not yet
\* deleted, each id once, and after each add or delete that reported success
\* the catalog file holds the same list as the in-memory catalog.
C29_CatalogPersistence ==
    call.fn = "catalog" =>
        /\ ItemIds(call.CATALOG_ITEMS)
             = (ItemIds(call.loaded) \cup call.added) \ call.deleted
        /\ Cardinality(ItemIds(call.CATALOG_ITEMS)) = Len(call.CATALOG_ITEMS)
        /\ call.response.success =>
               call.file = CatalogFile("list", call.CATALOG_ITEMS)

\* The running composition call has returned or raised.
CallOver == svc.pc \in {"returned", "raised"}

====
